---------------------------- MODULE Spec2Model ----------------------------
(***************************************************************************)
(* Model of ferrous_wheel (src/src/main.rs): a terminal RSVP reader.       *)
(*                                                                         *)
(* The program is one single-threaded loop.  Each iteration                *)
(*   top     (l.80-145)  computes delay = 60000 / wpm and renders,         *)
(*   poll    (l.148-184) waits for one input event for at most             *)
(*                       poll_duration and dispatches it,                  *)
(*   tick    (l.186-194) performs the automatic advance when it is due.    *)
(* Before the loop comes the set-up (l.61-77), after it the restore        *)
(* (l.198-201).                                                            *)
(*                                                                         *)
(* Time is in milliseconds.  The code reads the clock only through         *)
(* last_update.elapsed(), so the model keeps that difference in `elapsed`: *)
(* `last_update = Instant::now()` is `elapsed' = 0`, and waiting w ms in   *)
(* event::poll is `elapsed' = elapsed + w`.  Time passes only inside       *)
(* event::poll; a poll that times out returns at its deadline.             *)
(***************************************************************************)
EXTENDS Integers, Sequences, FiniteSets, TLC

VARIABLES
    pc,           \* position of main: "setup","top","poll","tick","restore","done"
    outcome,      \* how main ended: "running","ok","io_error","panic"
    cli,          \* the parsed command line: [wpm, focus]            (l.16-27, 40)
    words,        \* the tokens, each given by its length             (l.61)
    current_idx,  \* l.69
    wpm,          \* l.70
    paused,       \* l.71
    elapsed,      \* last_update.elapsed(), ms                        (l.77, 151, 186)
    delay,        \* the delay of this iteration, ms                  (l.80)
    key,          \* the event the poll of this iteration returned    (l.154-155)
    screen,       \* what was last written: the render, or l.63   (l.63, 88-143)
    raw_mode,     \* terminal::enable_raw_mode in effect              (l.74, 199)
    alt_screen,   \* the alternate screen is entered                  (l.75, 198)
    hist          \* history variable (no state of the program), see NoHist

vars == <<pc, outcome, cli, words, current_idx, wpm, paused, elapsed, delay,
          key, screen, raw_mode, alt_screen, hist>>

-----------------------------------------------------------------------------
(* Bounds of the model *)

\* the longest word the focus-index runs draw
MaxWordLen == 15
\* the longest token sequence Init draws
MaxWords == 3
\* how many times 25 the rate may rise above the configured rate
MaxRateSteps == 2
\* how many poll intervals' worth of time is followed while paused
MaxPausedPolls == 3

(* Program constants *)

\* wpm: u32.  A u32 is kept as two 16-bit limbs, [hi, lo] standing for
\* hi * 65536 + lo, since the model checker's integers end at 2^31 - 1
Limb == 65536
\* 60_000 / wpm
MsPerMinute == 60000
\* Duration::from_millis(100)
PausedPollMs == 100
\* saturating_add(25), saturating_sub(25)
RateStep == 25
\* .max(25)
RateFloor == 25

\* the u32 of a natural number below 2^31
U32(n) == [hi |-> n \div Limb, lo |-> n % Limb]

-----------------------------------------------------------------------------
(* Inputs *)

\* the lengths of the tokens of the text Init draws its word list from
SampleText == <<1, 2, 3, 8>>

\* the token sequences: the prefixes of SampleText, the empty one included
WordLists == { SubSeq(SampleText, 1, n) : n \in 0..MaxWords }

\* the command lines Init draws.  --wpm: zero, below the floor, the floor,
\* off the 25-grid, the default 250, and one within 25 of u32::MAX; --focus:
\* given or not
CommandLines ==
    { [wpm |-> U32(0), focus |-> FALSE],
      [wpm |-> U32(10), focus |-> TRUE],
      [wpm |-> U32(25), focus |-> FALSE],
      [wpm |-> U32(60), focus |-> TRUE],
      [wpm |-> U32(250), focus |-> FALSE],
      [wpm |-> U32(250), focus |-> TRUE],
      [wpm |-> [hi |-> Limb - 1, lo |-> Limb - 11], focus |-> FALSE] }

KeyKinds == {"Press", "Repeat", "Release"}
KeyCodes == {"q", "Esc", " ", "n", "p", "u", "d", "x"}
NoKey == [kind |-> "None", code |-> "None"]

\* words.len()
NumWords == Len(words)

\* Duration::saturating_sub, usize::saturating_sub, u32::saturating_sub
SaturatingSub(a, b) == IF a >= b THEN a - b ELSE 0

(* u32 arithmetic on limbs; k is a small natural number (k < Limb) *)

\* u32::MAX
U32Max == [hi |-> Limb - 1, lo |-> Limb - 1]

\* a + k, exact: the sum of a u32 and k may need a 17-bit hi limb
U32Plus(a, k) ==
    IF a.lo + k < Limb THEN [hi |-> a.hi, lo |-> a.lo + k]
    ELSE [hi |-> a.hi + 1, lo |-> a.lo + k - Limb]

\* a < b and a <= b, unsigned
U32Lt(a, b) == a.hi < b.hi \/ (a.hi = b.hi /\ a.lo < b.lo)
U32Le(a, b) == a = b \/ U32Lt(a, b)

\* u32::saturating_add
U32SaturatingAdd(a, k) ==
    IF U32Le(U32Plus(a, k), U32Max) THEN U32Plus(a, k) ELSE U32Max

\* u32::saturating_sub
U32SaturatingSub(a, k) ==
    IF a.lo >= k THEN [hi |-> a.hi, lo |-> a.lo - k]
    ELSE IF a.hi > 0 THEN [hi |-> a.hi - 1, lo |-> a.lo + Limb - k]
    ELSE U32(0)

\* Ord::max
U32Maximum(a, b) == IF U32Lt(a, b) THEN b ELSE a

\* a % m
U32Mod(a, m) == (a.hi * (Limb % m) + a.lo) % m

-----------------------------------------------------------------------------
(* Pure functions of the program *)

\* mutant: the second range runs one too far (2..=6)
get_orp_index_shifted(len) ==
    IF len <= 1 THEN 0
    ELSE IF len <= 6 THEN 1
    ELSE IF len <= 9 THEN 2
    ELSE IF len <= 13 THEN 3
    ELSE 4

\* fn get_orp_index(len: usize) -> usize
get_orp_index(len) ==
    IF len <= 1 THEN 0
    ELSE IF len <= 5 THEN 1
    ELSE IF len <= 9 THEN 2
    ELSE IF len <= 13 THEN 3
    ELSE 4

\* mutant: the quotient rounded to the nearest ms
IntervalRounded(rate) ==
    IF rate.hi > 0 THEN 0 ELSE (MsPerMinute + rate.lo \div 2) \div rate.lo

\* let delay = Duration::from_millis(60_000 / wpm as u64), for wpm # 0
Interval(rate) == IF rate.hi > 0 THEN 0 ELSE MsPerMinute \div rate.lo

\* if current_idx < words.len() { let word = words[current_idx]; ... }
ShowsWord(idx, n) == idx < n

\* let poll_duration = if paused { 100 ms } else { delay.saturating_sub(elapsed) }
PollDuration(p, d, e) == IF p THEN PausedPollMs ELSE SaturatingSub(d, e)

\* mutant: the key always resumes
TogglePausedResume(p) == FALSE

\* KeyCode::Char(' '): paused = !paused
TogglePaused(p) == ~p

\* mutant: the toggle leaves last_update alone
ToggleElapsedKept(e) == e

\* KeyCode::Char(' '): last_update = Instant::now()
ToggleElapsed(e) == 0

\* mutant: no bounds test
StepForwardUnguarded(idx, n) == idx + 1

\* mutant: the bounds test is off by one
StepForwardOffByOne(idx, n) == IF idx + 1 <= n THEN idx + 1 ELSE idx

\* KeyCode::Char('n'): if current_idx + 1 < words.len() { current_idx += 1 }
StepForward(idx, n) == IF idx + 1 < n THEN idx + 1 ELSE idx

\* KeyCode::Char('p'): current_idx = current_idx.saturating_sub(1)
StepBackward(idx) == SaturatingSub(idx, 1)

\* KeyCode::Char('u'): wpm = wpm.saturating_add(25)
IncreaseRate(rate) == U32SaturatingAdd(rate, RateStep)

\* mutant: no floor
DecreaseRateNoFloor(rate) == U32SaturatingSub(rate, RateStep)

\* KeyCode::Char('d'): wpm = wpm.saturating_sub(25).max(25)
DecreaseRate(rate) == U32Maximum(U32SaturatingSub(rate, RateStep), U32(RateFloor))

\* mutant: no test of paused
TickDueWhilePaused(p, e, d) == e >= d

\* mutant: > for >=
TickDueStrict(p, e, d) == ~p /\ e > d

\* if !paused && last_update.elapsed() >= delay
TickDue(p, e, d) == ~p /\ e >= d

\* mutant: the test is off by one
TickAdvancesOffByOne(idx, n) == idx < n

\* if current_idx + 1 < words.len()   (inside the auto-advance block)
TickAdvances(idx, n) == idx + 1 < n

\* else { paused = true; current_idx = words.len(); }
TickFinishIndex(idx, n) == n

-----------------------------------------------------------------------------
(* The environment's choices *)

\* the moments, in ms after the poll began, at which an event may arrive
\* within a poll of d ms: at once, at the deadline and, in a wait that
\* starts a fresh interval (e = 0), half way
Arrivals(d, e) == {0, d} \cup (IF e = 0 THEN {d \div 2} ELSE {})

\* the time followed while paused is bounded; while playing every wait is
\* bounded by the delay itself
CanWait(w) ==
    \/ w = 0
    \/ ~paused
    \/ elapsed + w <= MaxPausedPolls * PausedPollMs

\* the rate is followed up to MaxRateSteps steps above the configured rate
\* and down to MaxRateSteps steps below it
CanRaise == U32Lt(wpm, U32Plus(cli.wpm, MaxRateSteps * RateStep))
CanLower == U32Lt(U32SaturatingSub(cli.wpm, MaxRateSteps * RateStep), wpm)

(***************************************************************************)
(* The history variable records what the properties need of the past:     *)
(*   n       how many toggle-pause commands were dispatched in a row, with *)
(*           no other command and no automatic advance among them (0..2),  *)
(*   paused, idx, wpm   the playback state before the first of them,       *)
(*   since   the ms since the last toggle-pause that resumed playback, as  *)
(*           long as no step or rate command followed it; else -1,         *)
(*   from    current_idx at that resume.                                   *)
(***************************************************************************)
NoHist ==
    [n |-> 0, paused |-> TRUE, idx |-> 0, wpm |-> U32(0), since |-> -1, from |-> 0]

\* w ms later
Later(h, w) == IF h.since >= 0 THEN [h EXCEPT !.since = @ + w] ELSE h

\* after a toggle-pause in the state (p, idx, rate)
Toggled(h, p, idx, rate) ==
    [n      |-> IF h.n = 1 THEN 2 ELSE 1,
     paused |-> IF h.n = 1 THEN h.paused ELSE p,
     idx    |-> IF h.n = 1 THEN h.idx ELSE idx,
     wpm    |-> IF h.n = 1 THEN h.wpm ELSE rate,
     since  |-> IF p THEN 0 ELSE -1,
     from   |-> IF p THEN idx ELSE 0]

\* after an automatic advance
Advanced(h) == [NoHist EXCEPT !.since = h.since, !.from = h.from]

-----------------------------------------------------------------------------
(* Initial state: after Cli::parse and the acquisition of the text (l.40-61) *)

Init ==
    /\ pc = "setup"
    /\ outcome = "running"
    /\ cli \in CommandLines
    /\ words \in WordLists
    /\ current_idx = 0
    /\ wpm = cli.wpm
    /\ paused = TRUE
    /\ elapsed = 0
    /\ delay = 0
    /\ key = NoKey
    /\ screen = [kind |-> "none"]
    /\ raw_mode = FALSE
    /\ alt_screen = FALSE
    /\ hist = NoHist

-----------------------------------------------------------------------------
(* Set-up, l.61-77 *)

\* l.62-67: no words: the diagnostic, and return Ok(()) before any terminal call
SetupEmpty ==
    /\ pc = "setup"
    /\ NumWords = 0
    /\ screen' = [kind |-> "diagnostic"]
    /\ pc' = "done"
    /\ outcome' = "ok"
    /\ UNCHANGED <<cli, words, current_idx, wpm, paused, elapsed, delay, key,
                   raw_mode, alt_screen, hist>>

\* mutant: the set-up without the test for an empty word list
SetupUnchecked ==
    /\ pc = "setup"
    /\ current_idx' = 0
    /\ wpm' = cli.wpm
    /\ paused' = TRUE
    /\ raw_mode' = TRUE
    /\ alt_screen' = TRUE
    /\ elapsed' = 0
    /\ pc' = "top"
    /\ UNCHANGED <<outcome, cli, words, delay, key, screen, hist>>

\* l.69-77: the playback state, raw mode, the alternate screen, last_update
Setup ==
    /\ pc = "setup"
    /\ NumWords > 0
    /\ current_idx' = 0
    /\ wpm' = cli.wpm
    /\ paused' = TRUE
    /\ raw_mode' = TRUE
    /\ alt_screen' = TRUE
    /\ elapsed' = 0
    /\ pc' = "top"
    /\ UNCHANGED <<outcome, cli, words, delay, key, screen, hist>>

\* l.74-75: enable_raw_mode()? fails, or execute!(EnterAlternateScreen)? fails
\* after raw mode was enabled; main returns the error
SetupIoError ==
    /\ pc = "setup"
    /\ NumWords > 0
    /\ raw_mode' \in BOOLEAN
    /\ pc' = "done"
    /\ outcome' = "io_error"
    /\ UNCHANGED <<cli, words, current_idx, wpm, paused, elapsed, delay, key,
                   screen, alt_screen, hist>>

-----------------------------------------------------------------------------
(* Top of an iteration, l.80-145 *)

\* what l.88-143 draw: the word with its focus index and the status line, or
\* "Finished!"
Drawn ==
    IF ShowsWord(current_idx, NumWords)
    THEN [kind   |-> "word",
          idx    |-> current_idx,
          orp    |-> IF cli.focus THEN get_orp_index(words[current_idx + 1])
                     ELSE -1,
          wpm    |-> wpm,
          paused |-> paused]
    ELSE [kind |-> "finished"]

\* l.80: 60_000 / wpm with wpm = 0 panics (division by zero); the terminal
\* stays as it is
DelayPanic ==
    /\ pc = "top"
    /\ wpm = U32(0)
    /\ pc' = "done"
    /\ outcome' = "panic"
    /\ UNCHANGED <<cli, words, current_idx, wpm, paused, elapsed, delay, key,
                   screen, raw_mode, alt_screen, hist>>

\* l.80-145: the delay of this iteration, then the render
Render ==
    /\ pc = "top"
    /\ wpm # U32(0)
    /\ delay' = Interval(wpm)
    /\ screen' = Drawn
    /\ pc' = "poll"
    /\ UNCHANGED <<outcome, cli, words, current_idx, wpm, paused, elapsed, key,
                   raw_mode, alt_screen, hist>>

\* l.82-145: one of the execute!(..)?, terminal::size()? or flush()? fails
RenderIoError ==
    /\ pc = "top"
    /\ wpm # U32(0)
    /\ delay' = Interval(wpm)
    /\ pc' = "done"
    /\ outcome' = "io_error"
    /\ UNCHANGED <<cli, words, current_idx, wpm, paused, elapsed, key, screen,
                   raw_mode, alt_screen, hist>>

-----------------------------------------------------------------------------
(* The poll and the dispatch, l.148-184 *)

\* event::poll returned true and event::read gave the key event of kind k
\* and code c
Read(k, c) ==
    /\ pc = "poll"
    /\ key' = [kind |-> k, code |-> c]

\* how long the poll may have waited when it returns true
Waits ==
    { w \in Arrivals(PollDuration(paused, delay, elapsed), elapsed) : CanWait(w) }

Pressed == {"Press", "Repeat"}

\* l.154: event::poll(poll_duration)? returns false at the deadline
PollTimeout ==
    /\ pc = "poll"
    /\ CanWait(PollDuration(paused, delay, elapsed))
    /\ elapsed' = elapsed + PollDuration(paused, delay, elapsed)
    /\ hist' = Later(hist, PollDuration(paused, delay, elapsed))
    /\ key' = NoKey
    /\ pc' = "tick"
    /\ UNCHANGED <<outcome, cli, words, current_idx, wpm, paused, delay, screen,
                   raw_mode, alt_screen>>

\* l.154-155: event::poll(..)? or event::read()? fails
PollIoError ==
    /\ pc = "poll"
    /\ pc' = "done"
    /\ outcome' = "io_error"
    /\ UNCHANGED <<cli, words, current_idx, wpm, paused, elapsed, delay, key,
                   screen, raw_mode, alt_screen, hist>>

\* l.155: an event that is no key event (resize, mouse, focus, paste)
OtherEvent ==
    /\ pc = "poll"
    /\ \E w \in Waits :
          /\ elapsed' = elapsed + w
          /\ hist' = Later(hist, w)
    /\ key' = [kind |-> "NotKey", code |-> "None"]
    /\ pc' = "tick"
    /\ UNCHANGED <<outcome, cli, words, current_idx, wpm, paused, delay, screen,
                   raw_mode, alt_screen>>

\* mutant: no test of key.kind: a release is dispatched like a press, here
\* for the quit keys
KeyReleaseDispatched ==
    /\ \E w \in Waits, c \in KeyCodes :
          /\ Read("Release", c)
          /\ elapsed' = elapsed + w
          /\ hist' = Later(hist, w)
          /\ pc' = IF c \in {"q", "Esc"} THEN "restore" ELSE "top"
    /\ UNCHANGED <<outcome, cli, words, current_idx, wpm, paused, delay, screen,
                   raw_mode, alt_screen>>

\* l.156-158: a key release: continue, to the top of the next iteration
KeyRelease ==
    /\ \E w \in Waits, c \in KeyCodes :
          /\ Read("Release", c)
          /\ elapsed' = elapsed + w
          /\ hist' = Later(hist, w)
    /\ pc' = "top"
    /\ UNCHANGED <<outcome, cli, words, current_idx, wpm, paused, delay, screen,
                   raw_mode, alt_screen>>

\* l.160: 'q' or Esc: break
KeyQuit ==
    /\ \E w \in Waits, k \in Pressed, c \in {"q", "Esc"} :
          /\ Read(k, c)
          /\ elapsed' = elapsed + w
          /\ hist' = Later(hist, w)
    /\ pc' = "restore"
    /\ UNCHANGED <<outcome, cli, words, current_idx, wpm, paused, delay, screen,
                   raw_mode, alt_screen>>

\* l.161-164: ' ': toggle pause
KeySpace ==
    /\ \E w \in Waits, k \in Pressed :
          /\ Read(k, " ")
          /\ elapsed' = ToggleElapsed(elapsed + w)
    /\ paused' = TogglePaused(paused)
    /\ hist' = Toggled(hist, paused, current_idx, wpm)
    /\ pc' = "tick"
    /\ UNCHANGED <<outcome, cli, words, current_idx, wpm, delay, screen,
                   raw_mode, alt_screen>>

\* l.165-170: 'n': step forward
KeyN ==
    /\ \E w \in Waits, k \in Pressed : Read(k, "n")
    /\ current_idx' = StepForward(current_idx, NumWords)
    /\ elapsed' = 0
    /\ hist' = NoHist
    /\ pc' = "tick"
    /\ UNCHANGED <<outcome, cli, words, wpm, paused, delay, screen, raw_mode,
                   alt_screen>>

\* l.171-174: 'p': step backward
KeyP ==
    /\ \E w \in Waits, k \in Pressed : Read(k, "p")
    /\ current_idx' = StepBackward(current_idx)
    /\ elapsed' = 0
    /\ hist' = NoHist
    /\ pc' = "tick"
    /\ UNCHANGED <<outcome, cli, words, wpm, paused, delay, screen, raw_mode,
                   alt_screen>>

\* mutant: the arm also resets last_update, as the step arms do
KeyUResets ==
    /\ CanRaise
    /\ \E w \in Waits, k \in Pressed : Read(k, "u")
    /\ elapsed' = 0
    /\ wpm' = IncreaseRate(wpm)
    /\ hist' = NoHist
    /\ pc' = "tick"
    /\ UNCHANGED <<outcome, cli, words, current_idx, paused, delay, screen,
                   raw_mode, alt_screen>>

\* l.175-177: 'u': increase the rate
KeyU ==
    /\ CanRaise
    /\ \E w \in Waits, k \in Pressed :
          /\ Read(k, "u")
          /\ elapsed' = elapsed + w
    /\ wpm' = IncreaseRate(wpm)
    /\ hist' = NoHist
    /\ pc' = "tick"
    /\ UNCHANGED <<outcome, cli, words, current_idx, paused, delay, screen,
                   raw_mode, alt_screen>>

\* l.178-180: 'd': decrease the rate
KeyD ==
    /\ CanLower
    /\ \E w \in Waits, k \in Pressed :
          /\ Read(k, "d")
          /\ elapsed' = elapsed + w
    /\ wpm' = DecreaseRate(wpm)
    /\ hist' = NoHist
    /\ pc' = "tick"
    /\ UNCHANGED <<outcome, cli, words, current_idx, paused, delay, screen,
                   raw_mode, alt_screen>>

\* mutant: the default arm resets last_update
KeyOtherResets ==
    /\ \E w \in Waits, k \in Pressed : Read(k, "x")
    /\ elapsed' = 0
    /\ hist' = NoHist
    /\ pc' = "tick"
    /\ UNCHANGED <<outcome, cli, words, current_idx, wpm, paused, delay, screen,
                   raw_mode, alt_screen>>

\* l.181: any other key: nothing
KeyOther ==
    /\ \E w \in Waits, k \in Pressed :
          /\ Read(k, "x")
          /\ elapsed' = elapsed + w
          /\ hist' = Later(hist, w)
    /\ pc' = "tick"
    /\ UNCHANGED <<outcome, cli, words, current_idx, wpm, paused, delay, screen,
                   raw_mode, alt_screen>>

-----------------------------------------------------------------------------
(* The automatic advance, l.186-194 *)

Tick ==
    /\ pc = "tick"
    /\ IF TickDue(paused, elapsed, delay)
       THEN /\ IF TickAdvances(current_idx, NumWords)
               THEN /\ current_idx' = current_idx + 1
                    /\ elapsed' = 0
                    /\ paused' = paused
               ELSE /\ paused' = TRUE
                    /\ current_idx' = TickFinishIndex(current_idx, NumWords)
                    /\ elapsed' = elapsed
            /\ hist' = Advanced(hist)
       ELSE UNCHANGED <<current_idx, elapsed, paused, hist>>
    /\ key' = NoKey
    /\ pc' = "top"
    /\ UNCHANGED <<outcome, cli, words, wpm, delay, screen, raw_mode, alt_screen>>

-----------------------------------------------------------------------------
(* After the loop, l.197-201 *)

\* l.198-201: leave the alternate screen, disable raw mode, Ok(())
Restore ==
    /\ pc = "restore"
    /\ alt_screen' = FALSE
    /\ raw_mode' = FALSE
    /\ pc' = "done"
    /\ outcome' = "ok"
    /\ UNCHANGED <<cli, words, current_idx, wpm, paused, elapsed, delay, key,
                   screen, hist>>

\* l.198-199: execute!(LeaveAlternateScreen, ..)? fails, raw mode still on, or
\* disable_raw_mode()? fails after the alternate screen was left
RestoreIoError ==
    /\ pc = "restore"
    /\ alt_screen' \in BOOLEAN
    /\ pc' = "done"
    /\ outcome' = "io_error"
    /\ UNCHANGED <<cli, words, current_idx, wpm, paused, elapsed, delay, key,
                   screen, raw_mode, hist>>

-----------------------------------------------------------------------------
(* The program *)

Next ==
    \/ SetupEmpty
    \/ Setup
    \/ SetupIoError
    \/ DelayPanic
    \/ Render
    \/ RenderIoError
    \/ PollTimeout
    \/ PollIoError
    \/ OtherEvent
    \/ KeyRelease
    \/ KeyQuit
    \/ KeySpace
    \/ KeyN
    \/ KeyP
    \/ KeyU
    \/ KeyD
    \/ KeyOther
    \/ Tick
    \/ Restore
    \/ RestoreIoError

Spec == Init /\ [][Next]_vars

TypeOK ==
    /\ pc \in {"setup", "top", "poll", "tick", "restore", "done"}
    /\ outcome \in {"running", "ok", "io_error", "panic"}
    /\ current_idx \in Nat
    /\ wpm \in [hi : 0..(Limb - 1), lo : 0..(Limb - 1)]
    /\ paused \in BOOLEAN
    /\ elapsed \in Nat
    /\ delay \in 0..MsPerMinute
    /\ raw_mode \in BOOLEAN
    /\ alt_screen \in BOOLEAN

-----------------------------------------------------------------------------
(* Playback with no input after one toggle-pause at index 0: the loop of    *)
(* the program with event::poll always timing out, and the fairness of a    *)
(* loop that keeps running.                                                 *)

StartPlayback == KeySpace /\ paused /\ current_idx = 0

NextPlay ==
    \/ SetupEmpty
    \/ Setup
    \/ DelayPanic
    \/ Render
    \/ StartPlayback
    \/ PollTimeout
    \/ Tick

SpecPlay ==
    /\ Init
    /\ [][NextPlay]_vars
    /\ WF_vars(Render)
    /\ WF_vars(PollTimeout)
    /\ WF_vars(Tick)

-----------------------------------------------------------------------------
(* The focus index over word lengths: texts of one or two words of every    *)
(* length up to MaxWordLen, with and without --focus, played to the end     *)
(* with no input.                                                           *)

OrpWordLists ==
    { <<a>> : a \in 1..MaxWordLen }
        \cup { <<a, b>> : a \in 1..MaxWordLen, b \in 1..MaxWordLen }

InitOrp ==
    /\ pc = "setup"
    /\ outcome = "running"
    /\ cli \in { [wpm |-> U32(250), focus |-> f] : f \in BOOLEAN }
    /\ words \in OrpWordLists
    /\ current_idx = 0
    /\ wpm = cli.wpm
    /\ paused = TRUE
    /\ elapsed = 0
    /\ delay = 0
    /\ key = NoKey
    /\ screen = [kind |-> "none"]
    /\ raw_mode = FALSE
    /\ alt_screen = FALSE
    /\ hist = NoHist

NextOrp ==
    \/ Setup
    \/ Render
    \/ StartPlayback
    \/ PollTimeout
    \/ Tick

SpecOrp == InitOrp /\ [][NextOrp]_vars

-----------------------------------------------------------------------------
(* Properties *)

InLoop == pc \in {"top", "poll", "tick"}

\* this step dispatches a press (or repeat) of the key c
Dispatched(c) ==
    /\ pc = "poll"
    /\ pc' = "tick"
    /\ key'.kind \in Pressed
    /\ key'.code = c

\* this step is a tick whose automatic advance is due
TickFires == pc = "tick" /\ TickDue(paused, elapsed, delay)

\* C1: at every iteration boundary, index == words.len() implies paused.
\* Violated: toggle-pause in the Finished state gives index == len with
\* paused == false until the next due tick.
C1_FinishedImpliesPaused ==
    (pc = "top" /\ current_idx = NumWords) => paused

\* C2: a step command ('n' or 'p') dispatched while index == len leaves
\* index < len and paused == true.  Violated: 'n' at index == len changes
\* nothing.
C2_StepClearsFinished ==
    [][ ((Dispatched("n") \/ Dispatched("p")) /\ current_idx = NumWords)
            => (current_idx' < NumWords /\ paused') ]_vars

\* C3: 0 <= index <= words.len() in every state, and the render looks up
\* words[index] only for index < words.len().
C3_IndexInRange ==
    /\ current_idx \in 0..NumWords
    /\ screen.kind = "word" => screen.idx \in 0..(NumWords - 1)

\* C3 witness: the render met index == len and drew "Finished!" with no lookup
C3_Witness ==
    /\ pc = "poll"
    /\ NumWords > 0
    /\ current_idx = NumWords
    /\ screen.kind = "finished"

\* C4: a tick leaves index and paused alone, or increments index by one
\* below len with paused false, or sets index = len together with
\* paused = true; index never passes len.
C4_TickNeverPassesLen ==
    [][ pc = "tick" =>
          /\ current_idx' <= NumWords
          /\ \/ current_idx' = current_idx /\ paused' = paused
             \/ /\ current_idx + 1 < NumWords
                /\ current_idx' = current_idx + 1
                /\ paused' = FALSE
             \/ current_idx' = NumWords /\ paused' = TRUE ]_vars

\* C4 witness: a tick has just moved the index from len - 1 to len and paused
C4_Witness ==
    /\ pc = "top"
    /\ key = NoKey
    /\ screen.kind = "word"
    /\ screen.idx = NumWords - 1
    /\ ~screen.paused
    /\ current_idx = NumWords
    /\ paused

\* the state at an iteration boundary, hist.since ms after playback was
\* resumed at index hist.from with interval I > 0 and no input since
PlaybackOnSchedule ==
    (pc = "top" /\ hist.since >= 0 /\ Interval(wpm) > 0) =>
        LET I == Interval(wpm)
            k == hist.since \div I
        IN  IF hist.from + k < NumWords
            THEN current_idx = hist.from + k /\ ~paused
            ELSE current_idx = NumWords /\ paused

\* C5: with no input after the toggle-pause at index 0, k * I ms after it
\* the index is k (k < N), from N * I ms on the state is Finished, and
\* playback always reaches Finished.
C5_PlaybackSchedule ==
    /\ []PlaybackOnSchedule
    /\ (InLoop /\ ~paused) ~> (current_idx = NumWords /\ paused)

\* C5 witness: the scenario of three words at rate 60, Finished 3000 ms
\* after the toggle
C5_Witness ==
    /\ pc = "top"
    /\ NumWords = 3
    /\ wpm = U32(60)
    /\ hist.from = 0
    /\ hist.since = 3 * 1000
    /\ current_idx = 3
    /\ paused

\* C6: a toggle-pause that resumes resets last_update to now, and the first
\* automatic advance after a resume comes no sooner than one interval after
\* it.
C6_ResumeRestartsInterval ==
    [][ /\ (Dispatched(" ") /\ paused) => (~paused' /\ elapsed' = 0)
        /\ (TickFires /\ hist.n >= 1) => hist.since >= delay ]_vars

\* C6 witness: the first automatic advance after a resume at a later index
\* has just happened, one interval after the resume
C6_Witness ==
    /\ pc = "top"
    /\ ~paused
    /\ hist.n = 0
    /\ hist.from > 0
    /\ current_idx = hist.from + 1
    /\ delay > 0
    /\ hist.since = delay

\* the rate r lowered by 25 with the floor 25
LoweredBy25(r, r2) ==
    IF U32Le(U32(2 * RateStep), r) THEN U32Plus(r2, RateStep) = r
    ELSE r2 = U32(RateFloor)

\* C7 as claimed: from a rate >= 25 the rate stays >= 25, a decrease lowers
\* it by exactly 25 with the floor 25, an increase raises it by exactly 25.
\* Violated: an increase within 25 of u32::MAX raises it by less.
C7_RateStepsExact ==
    /\ [](U32Le(U32(RateFloor), cli.wpm) => U32Le(U32(RateFloor), wpm))
    /\ [][ U32Le(U32(RateFloor), cli.wpm) =>
             /\ Dispatched("d") => LoweredBy25(wpm, wpm')
             /\ Dispatched("u") => wpm' = U32Plus(wpm, RateStep) ]_vars

\* C7 amended: as claimed, but an increase that would pass u32::MAX gives
\* u32::MAX.
C7_RateStepsSaturating ==
    /\ [](U32Le(U32(RateFloor), cli.wpm) => U32Le(U32(RateFloor), wpm))
    /\ [][ U32Le(U32(RateFloor), cli.wpm) =>
             /\ Dispatched("d") => LoweredBy25(wpm, wpm')
             /\ Dispatched("u") =>
                  \/ wpm' = U32Plus(wpm, RateStep) /\ U32Le(wpm', U32Max)
                  \/ wpm' = U32Max /\ U32Lt(U32Max, U32Plus(wpm, RateStep)) ]_vars

\* C7 witness: an increase has just saturated at u32::MAX
C7_Witness ==
    /\ pc = "tick"
    /\ key.code = "u"
    /\ key.kind \in Pressed
    /\ screen.kind = "word"
    /\ U32Lt(screen.wpm, U32Max)
    /\ wpm = U32Max

\* C8: whatever --wpm gave, the rate is >= 25 and a multiple of 25, and
\* 60000 / rate never divides by zero.  Violated: --wpm is used as given.
C8_RateAlwaysValid ==
    /\ outcome # "panic"
    /\ InLoop => (U32Le(U32(RateFloor), wpm) /\ U32Mod(wpm, RateStep) = 0)

\* C9: 'n' at index == len - 1 and 'p' at index == 0 leave index, paused and
\* rate unchanged and reset last_update.
C9_StepNoOpAtEnds ==
    [][ ( \/ Dispatched("n") /\ current_idx = NumWords - 1
          \/ Dispatched("p") /\ current_idx = 0 )
            => /\ current_idx' = current_idx
               /\ paused' = paused
               /\ wpm' = wpm
               /\ elapsed' = 0 ]_vars

\* C9 witness: 'n' was just dispatched at the last of several words
C9_Witness ==
    /\ pc = "tick"
    /\ key.code = "n"
    /\ key.kind \in Pressed
    /\ NumWords >= 2
    /\ screen.kind = "word"
    /\ screen.idx = NumWords - 1
    /\ current_idx = NumWords - 1

\* C10: after two toggle-pause commands in a row, with no other command and
\* no automatic advance between them, paused, index and rate are what they
\* were before the first.
C10_DoubleToggle ==
    hist.n = 2 => (paused = hist.paused /\ current_idx = hist.idx /\ wpm = hist.wpm)

\* C10 witness: the second of two toggle-pause commands was just dispatched
C10_Witness ==
    /\ pc = "tick"
    /\ key.code = " "
    /\ hist.n = 2

\* C11: whenever main ends after the set-up, from the loop or from the
\* restore, by quit or by an I/O error, raw mode is off and the alternate
\* screen is left.  Violated: an I/O error returned with ? skips l.198-199.
C11_TerminalRestored ==
    [][ ( /\ pc \in {"top", "poll", "tick", "restore"}
          /\ pc' = "done"
          /\ outcome' \in {"ok", "io_error"} )
            => (~raw_mode' /\ ~alt_screen') ]_vars

\* C12: with no words the program never enables raw mode, never enters the
\* alternate screen or the loop, and ends successfully with the diagnostic
\* written; the loop runs only with at least one word.
C12_EmptyNeverEntersLoop ==
    /\ NumWords = 0 =>
          /\ pc \in {"setup", "done"}
          /\ ~raw_mode /\ ~alt_screen
          /\ pc = "done" => (outcome = "ok" /\ screen.kind = "diagnostic")
    /\ (InLoop \/ pc = "restore") => NumWords >= 1

\* C12 witness: main has returned for an empty word list
C12_Witness ==
    /\ NumWords = 0
    /\ pc = "done"
    /\ outcome = "ok"
    /\ screen.kind = "diagnostic"

\* last_update is what it was: the time since it grew by the wait of this
\* poll, which is at most poll_duration
LastUpdateKept ==
    (elapsed' - elapsed) \in 0..PollDuration(paused, delay, elapsed)

\* this step reads an event in the poll: every step from the poll but the
\* time-out and the I/O error
EventRead == pc = "poll" /\ pc' # "done" /\ key' # NoKey

\* index, paused and rate stay as they are
PlaybackKept == current_idx' = current_idx /\ paused' = paused /\ wpm' = wpm

\* what each press does, but for the increase of the rate
PressEffects ==
    /\ (key'.code \in {"q", "Esc"}) =>
          (pc' = "restore" /\ PlaybackKept /\ LastUpdateKept)
    /\ (key'.code = " ") =>
          /\ pc' = "tick"
          /\ paused' = ~paused
          /\ current_idx' = current_idx /\ wpm' = wpm
          /\ elapsed' = 0
    /\ (key'.code = "n") =>
          /\ pc' = "tick"
          /\ current_idx' = (IF current_idx + 1 < NumWords THEN current_idx + 1
                             ELSE current_idx)
          /\ paused' = paused /\ wpm' = wpm
          /\ elapsed' = 0
    /\ (key'.code = "p") =>
          /\ pc' = "tick"
          /\ current_idx' = (IF current_idx > 0 THEN current_idx - 1 ELSE 0)
          /\ paused' = paused /\ wpm' = wpm
          /\ elapsed' = 0
    /\ (key'.code = "d") =>
          /\ pc' = "tick"
          /\ LoweredBy25(wpm, wpm')
          /\ current_idx' = current_idx /\ paused' = paused
    /\ (key'.code = "x") =>
          (pc' = "tick" /\ PlaybackKept /\ LastUpdateKept)

\* C13 as claimed: each press does what its key is bound to, 'u' raising the
\* rate by 25; an unrecognized key and an event that is no key event change
\* nothing.  Violated: 'u' within 25 of u32::MAX raises the rate by less.
C13_KeyBindingsExact ==
    [][ EventRead =>
          /\ (key'.kind \in Pressed) =>
                /\ PressEffects
                /\ (key'.code = "u") =>
                      /\ pc' = "tick"
                      /\ wpm' = U32Plus(wpm, RateStep)
                      /\ current_idx' = current_idx /\ paused' = paused
          /\ (key'.kind = "NotKey") =>
                (pc' = "tick" /\ PlaybackKept /\ LastUpdateKept) ]_vars

\* C13 amended: as claimed, but 'u' raises the rate by 25 or, where that
\* would pass u32::MAX, to u32::MAX.
C13_KeyBindings ==
    [][ EventRead =>
          /\ (key'.kind \in Pressed) =>
                /\ PressEffects
                /\ (key'.code = "u") =>
                      /\ pc' = "tick"
                      /\ \/ wpm' = U32Plus(wpm, RateStep) /\ U32Le(wpm', U32Max)
                         \/ wpm' = U32Max /\ U32Lt(U32Max, U32Plus(wpm, RateStep))
                      /\ current_idx' = current_idx /\ paused' = paused
          /\ (key'.kind = "NotKey") =>
                (pc' = "tick" /\ PlaybackKept /\ LastUpdateKept) ]_vars

\* C13 witness: an unrecognized key was just dispatched while playing, part
\* of the interval gone, and nothing has changed
C13_Witness ==
    /\ pc = "tick"
    /\ key.code = "x"
    /\ key.kind \in Pressed
    /\ ~paused
    /\ elapsed > 0
    /\ elapsed < delay
    /\ screen.kind = "word"
    /\ screen.idx = current_idx
    /\ screen.wpm = wpm

\* C14: a key release, whatever its code, goes on to the next iteration
\* with index, paused, rate and last_update as they were; it never quits.
C14_ReleaseIgnored ==
    [][ (EventRead /\ key'.kind = "Release") =>
          (pc' = "top" /\ PlaybackKept /\ LastUpdateKept) ]_vars

\* C14 witness: the release of 'q' was just read while playing, and the loop
\* goes on
C14_Witness ==
    /\ pc = "top"
    /\ key.kind = "Release"
    /\ key.code = "q"
    /\ ~paused
    /\ elapsed > 0

\* C20: 'u' and 'd' leave index, paused and last_update as they were.
C20_RateChangeKeepsRest ==
    [][ (Dispatched("u") \/ Dispatched("d")) =>
          /\ current_idx' = current_idx
          /\ paused' = paused
          /\ LastUpdateKept ]_vars

\* C20 witness: 'u' was just dispatched while playing, part of the interval
\* gone and still counted
C20_Witness ==
    /\ pc = "tick"
    /\ key.code = "u"
    /\ key.kind \in Pressed
    /\ ~paused
    /\ elapsed > 0
    /\ elapsed < delay

\* the bucket table of the focus index
OrpBucket(L) ==
    CASE L \in 0..1 -> 0
      [] L \in 2..5 -> 1
      [] L \in 6..9 -> 2
      [] L \in 10..13 -> 3
      [] OTHER -> 4

\* C15: the focus index of a word of length L is the bucket of L and lies
\* in 0..max(0, L - 1); for L = 0 it is 0.
C15_OrpTable ==
    /\ get_orp_index(0) = OrpBucket(0)
    /\ (screen.kind = "word" /\ cli.focus) =>
          LET L == words[screen.idx + 1]
          IN  /\ screen.orp = OrpBucket(L)
              /\ screen.orp \in 0..(IF L >= 1 THEN L - 1 ELSE 0)

\* C15 witness: a word of length 8 was drawn with focus index 2
C15_Witness ==
    /\ pc = "poll"
    /\ cli.focus
    /\ screen.kind = "word"
    /\ words[screen.idx + 1] = 8
    /\ screen.orp = 2

\* C16: for a rate >= 25 the delay of an iteration is the truncated quotient
\* 60000 / rate: 240 at 250, 1000 at 60, 857 at 70.
C16_IntervalTruncates ==
    /\ Interval(U32(250)) = 240
    /\ Interval(U32(60)) = 1000
    /\ Interval(U32(70)) = 857
    /\ (pc = "poll" /\ U32Le(U32(RateFloor), wpm)) =>
          IF wpm.hi > 0 THEN delay = 0
          ELSE delay * wpm.lo <= MsPerMinute /\ MsPerMinute < (delay + 1) * wpm.lo

\* C16 witness: an iteration at the rate 225, which does not divide 60000
C16_Witness ==
    /\ pc = "poll"
    /\ wpm = U32(225)
    /\ delay = 266

\* C17: a tick decides with the interval of the rate as it is at the tick.
\* Violated: the tick compares with the delay of l.80, computed before the
\* rate key of this iteration was dispatched.
C17_TickUsesLiveRate ==
    pc = "tick" =>
        (TickDue(paused, elapsed, delay) <=> TickDue(paused, elapsed, Interval(wpm)))

\* C18: an iteration that does not quit reaches the tick, so an advance that
\* is due after the poll is made in this iteration.  Violated: a key release
\* continues past the tick.
C18_TickEveryIteration ==
    [][ ( /\ pc = "poll"
          /\ pc' \notin {"restore", "done"}
          /\ TickDue(paused', elapsed', delay') )
            => pc' = "tick" ]_vars

\* C19: while paused stays true the index changes only by a dispatched 'n'
\* or 'p', however much time has passed.
C19_NoAdvanceWhilePaused ==
    [][ (paused /\ paused' /\ current_idx' # current_idx)
            => (Dispatched("n") \/ Dispatched("p")) ]_vars

\* C19 witness: a tick has just run while paused, more than an interval
\* after last_update, and the index is what the render drew
C19_Witness ==
    /\ pc = "top"
    /\ key = NoKey
    /\ paused
    /\ delay > 0
    /\ elapsed >= delay
    /\ screen.kind = "word"
    /\ screen.paused
    /\ screen.idx = current_idx

=============================================================================
